---- MODULE Spec2Model ----
(***************************************************************************)
(* Admin-gated user lifecycle of nw-patrol (functions/index.js).           *)
(*                                                                         *)
(* Two backing stores: the identity provider (admin.auth()) and the        *)
(* profile store (admin.firestore().collection("users")).  Three families  *)
(* of handlers create, update and delete an account in both stores:        *)
(*   "call"    exports.createUser/updateUser/deleteUser  (https.onCall,    *)
(*             lines 44-122)                                               *)
(*   "http"    exports.httpCreateUser/httpUpdateUser/httpDeleteUser        *)
(*             (https.onRequest + sendError, lines 139-195)                *)
(*   "request" exports.createUser/updateUser/deleteUser  (https.onRequest, *)
(*             lines 214-301)                                              *)
(* Every await on a store is one atomic step of a request.                 *)
(*                                                                         *)
(* Abstractions: account ids are the naturals 1..MaxUid handed out in      *)
(* order (the provider never reuses an id), 0 is a missing id; a missing   *)
(* or empty string field is "" (both are falsy in the source); the         *)
(* administrator sentinel of lines 12/36/209 is written "admin"; numeric   *)
(* gRPC status codes raised by the profile store are written as numerals   *)
(* in strings ("5" NOT_FOUND, "14" UNAVAILABLE).                           *)
(***************************************************************************)
EXTENDS Naturals, Sequences, FiniteSets, TLC

\* ------------------------------------------------------------ bounds
NumProcs == 2
MaxUid == 3
MaxRequests == 2

Procs == 1..NumProcs
Uids == 1..MaxUid
NoUid == 0

\* ------------------------------------------------------------ values
Admin == "admin"
Absent == "absent"
OK == "ok"

Variants == {"call", "http", "request"}
Ops == {"create", "update", "delete"}

TaxonomyCodes ==
  {"unauthenticated", "permission-denied", "invalid-argument",
   "already-exists", "not-found", "internal"}

NoUser == [exists |-> FALSE]
NoDoc == [exists |-> FALSE]

UserRecord(email, password, displayName) ==
  [exists |-> TRUE, email |-> email, password |-> password,
   displayName |-> displayName]

Doc(email, name, role, title, communities) ==
  [exists |-> TRUE, email |-> email, name |-> name, role |-> role,
   title |-> title, communities |-> communities]

VARIABLES auth, users, nextUid, served, pc, req, uidOf, resp, log, seen,
          deleted, past

vars == <<auth, users, nextUid, served, pc, req, uidOf, resp, log, seen,
          deleted, past>>

\* ------------------------------------------------------------ requests
Cred(kind, uid) == [kind |-> kind, uid |-> uid]

Creds == {Cred("missing", NoUid), Cred("invalid", NoUid)}
           \cup {Cred("valid", u) : u \in Uids}

Data(uid, email, password, name, role, title, has, communities) ==
  [uid |-> uid, email |-> email, password |-> password, name |-> name,
   role |-> role, title |-> title, hasCommunities |-> has,
   communities |-> communities]

\* The communities field of a request: hasCommunities says whether it was
\* sent; Undefined stands for the value of a field that was not.
Undefined == <<"undefined">>

CommunityChoices == {<<FALSE, Undefined>>, <<TRUE, <<"c2">> >>}

\* Requests that lack one required field.
CreateIncomplete ==
  {Data(NoUid, "", "goodpw", "n2", "member", "t2", FALSE, Undefined),
   Data(NoUid, "c@x", "", "n2", "member", "t2", FALSE, Undefined),
   Data(NoUid, "c@x", "goodpw", "", "member", "t2", FALSE, Undefined),
   Data(NoUid, "c@x", "goodpw", "n2", "", "t2", FALSE, Undefined),
   Data(NoUid, "c@x", "goodpw", "n2", "member", "", FALSE, Undefined)}

CreateData ==
  {Data(NoUid, e, w, "n2", r, "t2", c[1], c[2]) :
      e \in {"a@x", "c@x"}, w \in {"weak", "goodpw"},
      r \in {Admin, "member"}, c \in CommunityChoices}
  \cup CreateIncomplete

UpdateIncomplete ==
  {Data(NoUid, "", "", "n3", "member", "t3", FALSE, Undefined),
   Data(1, "", "", "", "member", "t3", FALSE, Undefined),
   Data(1, "", "", "n3", "", "t3", FALSE, Undefined),
   Data(1, "", "", "n3", "member", "", FALSE, Undefined)}

UpdateData ==
  {Data(u, "", w, "n3", r, "t3", c[1], c[2]) :
      u \in Uids, w \in {"", "weak", "newpw1"},
      r \in {Admin, "member"}, c \in CommunityChoices}
  \cup UpdateIncomplete

DeleteData ==
  {Data(u, "", "", "", "", "", FALSE, Undefined) : u \in Uids \cup {NoUid}}

DataOf(op) ==
  CASE op = "create" -> CreateData
    [] op = "update" -> UpdateData
    [] op = "delete" -> DeleteData

Request(variant, op, method, cred, data) ==
  [variant |-> variant, op |-> op, method |-> method, cred |-> cred,
   data |-> data]

NoRequest ==
  Request("none", "none", "POST", Cred("missing", NoUid),
          Data(NoUid, "", "", "", "", "", FALSE, Undefined))

\* ------------------------------------------------------------ responses
Response(status, success, code, uid) ==
  [status |-> status, success |-> success, code |-> code, uid |-> uid]

NoResponse == Response(0, FALSE, Absent, NoUid)

\* ------------------------------------------------------------ identity provider
WeakPasswords == {"weak"}

AuthFaults == {"auth/internal-error"}

EmailTaken(a, email) ==
  \E u \in Uids : a[u].exists /\ a[u].email = email

\* admin.auth().createUser({email, password, displayName}): the outcomes
\* [err, auth, uid] the provider can produce.  The password policy is
\* checked before the account is looked up; ids are handed out in order.
authCreateUser(a, n, email, password, displayName) ==
  IF password \in WeakPasswords
    THEN {[err |-> "auth/invalid-password", auth |-> a, uid |-> NoUid]}
    ELSE {[err |-> f, auth |-> a, uid |-> NoUid] : f \in AuthFaults}
         \cup (IF EmailTaken(a, email)
                 THEN {[err |-> "auth/email-already-exists", auth |-> a,
                        uid |-> NoUid]}
                 ELSE IF n \in Uids
                   THEN {[err |-> OK,
                          auth |-> [a EXCEPT ![n] =
                                      UserRecord(email, password, displayName)],
                          uid |-> n]}
                   ELSE {})

\* admin.auth().updateUser(uid, {displayName, password?})
authUpdateUser(a, uid, displayName, password) ==
  IF password \in WeakPasswords
    THEN {[err |-> "auth/invalid-password", auth |-> a]}
    ELSE {[err |-> f, auth |-> a] : f \in AuthFaults}
         \cup (IF ~a[uid].exists
                 THEN {[err |-> "auth/user-not-found", auth |-> a]}
                 ELSE {[err |-> OK,
                        auth |-> [a EXCEPT ![uid] =
                           UserRecord(a[uid].email,
                                      IF password = "" THEN a[uid].password
                                                       ELSE password,
                                      displayName)]]})

\* admin.auth().deleteUser(uid)
authDeleteUser(a, uid) ==
  {[err |-> f, auth |-> a] : f \in AuthFaults}
  \cup (IF ~a[uid].exists
          THEN {[err |-> "auth/user-not-found", auth |-> a]}
          ELSE {[err |-> OK, auth |-> [a EXCEPT ![uid] = NoUser]]})

\* ------------------------------------------------------------ profile store
StoreFaults == {"14", Absent}

\* collection("users").doc(uid).get()
docGet(u, uid) ==
  {[err |-> f, doc |-> NoDoc] : f \in StoreFaults}
  \cup {[err |-> OK, doc |-> u[uid]]}

\* collection("users").doc(uid).set(doc): creates or replaces the document.
docSet(u, uid, doc) ==
  {[err |-> f, users |-> u] : f \in StoreFaults}
  \cup {[err |-> OK, users |-> [u EXCEPT ![uid] = doc]]}

docUpsert(u, uid, name, role, title, communities) ==
  {[err |-> f, users |-> u] : f \in StoreFaults}
  \cup {[err |-> OK,
         users |-> [u EXCEPT ![uid] =
            Doc(IF u[uid].exists THEN u[uid].email ELSE "",
                name, role, title, communities)]]}

\* collection("users").doc(uid).update({name, role, title, communities}):
\* fails with NOT_FOUND (5) when the document does not exist, otherwise
\* overwrites the four fields and keeps the others.
docUpdate(u, uid, name, role, title, communities) ==
  {[err |-> f, users |-> u] : f \in StoreFaults}
  \cup (IF ~u[uid].exists
          THEN {[err |-> "5", users |-> u]}
          ELSE {[err |-> OK,
                 users |-> [u EXCEPT ![uid] =
                    Doc(u[uid].email, name, role, title, communities)]]})

\* collection("users").doc(uid).delete(): succeeds whether or not the
\* document exists.
docDelete(u, uid) ==
  {[err |-> f, users |-> u] : f \in StoreFaults}
  \cup {[err |-> OK, users |-> [u EXCEPT ![uid] = NoDoc]]}

\* ------------------------------------------------------------ guards
\* ensureAdmin(context), lines 7-15 (and its copy, 204-212): the code
\* thrown, or OK.  ctxUid is context.auth.uid, NoUid when context.auth is
\* not set; got is the outcome of the get() of line 11.
ensureAdmin(ctxUid, got) ==
  IF ctxUid = NoUid THEN "unauthenticated"
  ELSE IF got.err # OK THEN got.err
  ELSE IF ~got.doc.exists \/ got.doc.role # Admin THEN "permission-denied"
  ELSE OK

\* ensureAdminFromRequest(req), lines 18-42.
ensureAdminFromRequest(cred, got) ==
  IF cred.kind = "missing" THEN "unauthenticated"
  ELSE IF cred.kind = "invalid" THEN "unauthenticated"
  ELSE IF got.err # OK THEN got.err
  ELSE IF ~got.doc.exists \/ got.doc.role # Admin THEN "permission-denied"
  ELSE OK

\* Lines 218-223 (251-254, 282-285): the token is taken from the header
\* without a check (a TypeError, which has no code, when the header is
\* missing), verified, and the caller handed to ensureAdmin.
requestGuard(cred, got) ==
  IF cred.kind = "missing" THEN Absent
  ELSE IF cred.kind = "invalid" THEN "auth/argument-error"
  ELSE ensureAdmin(cred.uid, got)

\* The context the callable runtime hands to the handler: auth is set only
\* for a verified token.
contextAuth(cred) == IF cred.kind = "valid" THEN cred.uid ELSE NoUid

Guard(r, got) ==
  CASE r.variant = "call" -> ensureAdmin(contextAuth(r.cred), got)
    [] r.variant = "http" -> ensureAdminFromRequest(r.cred, got)
    [] r.variant = "request" -> requestGuard(r.cred, got)

\* The required-field checks of lines 48, 77, 110 (146, 166, 187; 226,
\* 257, 288).
missingFields(op, d) ==
  CASE op = "create" ->
         d.email = "" \/ d.password = "" \/ d.name = "" \/ d.role = ""
           \/ d.title = ""
    [] op = "update" ->
         d.uid = NoUid \/ d.name = "" \/ d.role = "" \/ d.title = ""
    [] op = "delete" -> d.uid = NoUid

\* The communities field passed on without its default.
communitiesUnchecked(d) == d.communities

\* communities || []
communitiesOrEmpty(d) == IF d.hasCommunities THEN d.communities ELSE << >>

\* The profile written with role and title in each other's place.
profileSwapped(d) ==
  Doc(d.email, d.name, d.title, d.role, communitiesOrEmpty(d))

\* The document createUser writes: {email, name, role, title,
\* communities: communities || []} (lines 59-61, 150, 236-238).
profileOf(d) ==
  Doc(d.email, d.name, d.role, d.title, communitiesOrEmpty(d))

\* ------------------------------------------------------------ error translation
\* catch of createUser, lines 64-69.
createUserCatch(code) ==
  IF code = "auth/email-already-exists" THEN "already-exists" ELSE "internal"

\* catch of updateUser, lines 93-102.
updateUserCatch(code) ==
  IF code = "auth/user-not-found" THEN "not-found"
  ELSE IF code \in {"auth/invalid-password", "auth/weak-password"}
    THEN "invalid-argument"
  ELSE "internal"

\* catch of deleteUser, lines 118-121.
deleteUserCatch(code) == "internal"

\* An error that leaves an onCall handler: an HttpsError keeps its code,
\* anything else is reported by the runtime as internal.  The runtime also
\* chooses the HTTP status, which is left 0 here.
onCallThrow(code) ==
  Response(0, FALSE, IF code \in TaxonomyCodes THEN code ELSE "internal",
           NoUid)

statusMapSwapped(code) ==
  CASE code = "unauthenticated" -> 401
    [] code = "permission-denied" -> 403
    [] code = "invalid-argument" -> 400
    [] code = "already-exists" -> 404
    [] code = "not-found" -> 409
    [] OTHER -> 500

statusMap(code) ==
  CASE code = "unauthenticated" -> 401
    [] code = "permission-denied" -> 403
    [] code = "invalid-argument" -> 400
    [] code = "already-exists" -> 409
    [] code = "not-found" -> 404
    [] code = "internal" -> 500
    [] OTHER -> 500

\* sendError(res, error), lines 125-137; code is error.code, Absent when
\* the error has none.
sendError(code) ==
  LET c == IF code = Absent THEN "internal" ELSE code
  IN  Response(statusMap(c), FALSE, c, NoUid)

\* catch of httpCreateUser, lines 152-155.
httpCreateUserCatch(code) ==
  sendError(IF code = "auth/email-already-exists" THEN "already-exists"
            ELSE code)

\* catch of httpUpdateUser, lines 172-176: the second test reads the code
\* of the error the first may have replaced.
httpUpdateUserCatch(code) ==
  LET e1 == IF code = "auth/user-not-found" THEN "not-found" ELSE code
      e2 == IF e1 \in {"auth/invalid-password", "auth/weak-password"}
              THEN "invalid-argument" ELSE e1
  IN  sendError(e2)

\* catch of httpDeleteUser, lines 191-193.
httpDeleteUserCatch(code) == sendError(code)

\* catch of the onRequest handlers, lines 241-244, 272-275, 296-299: the
\* body carries the message only.
requestCatch(code) == Response(500, FALSE, Absent, NoUid)

\* The response to an error thrown in handler r; inTry says whether the
\* throw is inside the handler's try block (in the onCall handlers the guard
\* and the field check are outside it).
Thrown(r, code, inTry) ==
  CASE r.variant = "call" ->
         IF ~inTry THEN onCallThrow(code)
         ELSE onCallThrow(CASE r.op = "create" -> createUserCatch(code)
                            [] r.op = "update" -> updateUserCatch(code)
                            [] r.op = "delete" -> deleteUserCatch(code))
    [] r.variant = "http" ->
         (CASE r.op = "create" -> httpCreateUserCatch(code)
            [] r.op = "update" -> httpUpdateUserCatch(code)
            [] r.op = "delete" -> httpDeleteUserCatch(code))
    [] r.variant = "request" -> requestCatch(code)

\* return {success: true, uid} / res.json(...)
Succeeded(uid) == Response(200, TRUE, Absent, uid)

\* The data sent along with a credential that cannot pass the guard: one
\* complete request of the operation and the incomplete ones.
ProbeOf(op) ==
  CASE op = "create" ->
         CreateIncomplete
         \cup {Data(NoUid, "c@x", "goodpw", "n2", "member", "t2", FALSE,
                    Undefined)}
    [] op = "update" ->
         UpdateIncomplete
         \cup {Data(1, "", "", "n3", "member", "t3", FALSE, Undefined)}
    [] op = "delete" ->
         {Data(u, "", "", "", "", "", FALSE, Undefined) : u \in {NoUid, 1}}

\* The bodies sent to operation op with credential c while the profile
\* store is u: every body when c is an administrator's, otherwise the ones
\* that differ in what the handler looks at before it refuses.
DataFor(op, c, u) ==
  IF c.kind = "valid" /\ u[c.uid].exists /\ u[c.uid].role = Admin
    THEN DataOf(op) ELSE ProbeOf(op)

\* ------------------------------------------------------------ state
\* auth, users : the two stores, by account id
\* nextUid     : the id the provider hands out next
\* served      : requests received so far
\* pc, req     : each request slot's position and the request it handles
\* uidOf       : userRecord.uid of a create between its two writes
\* resp        : the response sent
\* log         : history, the store writes the request issued, in order
\* seen        : history, what the guard read and the stores when it began
\* deleted     : history, the ids a delete request removed from both stores
\*               (the id had a profile when the request began)
\* past        : history; orphaned, the emails of the creates whose profile
\*               write failed after their identity write; revoked, the ids
\*               whose administrator profile an update gave another role or
\*               a delete removed
Write(store, call, uid, err) ==
  [store |-> store, call |-> call, uid |-> uid, err |-> err]

NotSeen ==
  [read |-> FALSE, got |-> [err |-> OK, doc |-> NoDoc], auth |-> << >>,
   users |-> << >>, deleted |-> {},
   past |-> [orphaned |-> {}, revoked |-> {}]]

Init ==
  /\ auth = [u \in Uids |->
               CASE u = 1 -> UserRecord("a@x", "adminpw", "n1")
                 [] u = 2 -> UserRecord("b@x", "userpw", "n1")
                 [] OTHER -> NoUser]
  /\ users = [u \in Uids |->
               CASE u = 1 -> Doc("a@x", "n1", Admin, "t1", <<"c1">>)
                 [] u = 2 -> Doc("b@x", "n1", "member", "t1", <<"c1">>)
                 [] OTHER -> NoDoc]
  /\ nextUid = 3
  /\ served = 0
  /\ pc = [p \in Procs |-> "idle"]
  /\ req = [p \in Procs |-> NoRequest]
  /\ uidOf = [p \in Procs |-> NoUid]
  /\ resp = [p \in Procs |-> NoResponse]
  /\ log = [p \in Procs |-> << >>]
  /\ seen = [p \in Procs |-> NotSeen]
  /\ deleted = {}
  /\ past = [orphaned |-> {}, revoked |-> {}]

\* The handler replies and ends.
Reply(p, r) ==
  /\ pc' = [pc EXCEPT ![p] = "done"]
  /\ resp' = [resp EXCEPT ![p] = r]

\* A POST request arrives and runs up to its first store write: the guard,
\* then the required-field check.
Receive(p, v, o, c, d) ==
  /\ \E got \in (IF c.kind = "valid" THEN docGet(users, c.uid)
                                     ELSE {[err |-> OK, doc |-> NoDoc]}) :
       LET r == Request(v, o, "POST", c, d)
           g == Guard(r, got)
           thrown == IF g # OK THEN g
                     ELSE IF missingFields(o, d) THEN "invalid-argument"
                     ELSE OK
       IN  /\ req' = [req EXCEPT ![p] = r]
           /\ seen' = [seen EXCEPT ![p] =
                         [read |-> c.kind = "valid", got |-> got,
                          auth |-> auth, users |-> users,
                          deleted |-> deleted, past |-> past]]
           /\ IF thrown # OK
                THEN Reply(p, Thrown(r, thrown, FALSE))
                ELSE /\ pc' = [pc EXCEPT ![p] = "first"]
                     /\ resp' = resp
  /\ served' = served + 1
  /\ UNCHANGED <<auth, users, nextUid, uidOf, log, deleted, past>>

\* The slots are interchangeable, so a request takes the lowest free one.
Start(p) ==
  /\ pc[p] = "idle"
  /\ \A q \in Procs : q < p => pc[q] # "idle"
  /\ served < MaxRequests
  /\ \E v \in Variants, o \in Ops, c \in Creds :
     \E d \in DataFor(o, c, users) : Receive(p, v, o, c, d)

\* The http handlers answer a request that is not a POST before anything
\* else (lines 141-142, 161-162, 182-183).
OtherMethod(p) ==
  /\ pc[p] = "idle"
  /\ \A q \in Procs : pc[q] = "idle"
  /\ served < MaxRequests
  /\ \E o \in Ops, m \in {"OPTIONS", "GET"} :
       /\ req' = [req EXCEPT ![p] =
                    Request("http", o, m, Cred("missing", NoUid),
                            Data(NoUid, "", "", "", "", "", FALSE,
                                 Undefined))]
       /\ Reply(p, IF m = "OPTIONS"
                     THEN Response(204, FALSE, Absent, NoUid)
                     ELSE Response(405, FALSE, Absent, NoUid))
  /\ served' = served + 1
  /\ UNCHANGED <<auth, users, nextUid, uidOf, log, seen, deleted, past>>

\* Requests are served one at a time.
Begin(p) ==
  /\ \A q \in Procs : pc[q] = "idle"
  /\ Start(p)

\* createUser, first write: admin.auth().createUser (lines 53-57, 149,
\* 230-234).
CreateIdentity(p) ==
  /\ pc[p] = "first" /\ req[p].op = "create"
  /\ LET d == req[p].data IN
     \E o \in authCreateUser(auth, nextUid, d.email, d.password, d.name) :
       /\ log' = [log EXCEPT ![p] =
                    Append(@, Write("auth", "createUser", o.uid, o.err))]
       /\ IF o.err = OK
            THEN /\ auth' = o.auth
                 /\ nextUid' = nextUid + 1
                 /\ uidOf' = [uidOf EXCEPT ![p] = o.uid]
                 /\ pc' = [pc EXCEPT ![p] = "second"]
                 /\ resp' = resp
            ELSE /\ Reply(p, Thrown(req[p], o.err, TRUE))
                 /\ UNCHANGED <<auth, nextUid, uidOf>>
  /\ UNCHANGED <<users, served, req, seen, deleted, past>>

\* createUser, second write: doc(userRecord.uid).set (lines 59-63, 150-151,
\* 236-240).
SetProfile(p) ==
  /\ pc[p] = "second" /\ req[p].op = "create"
  /\ LET d == req[p].data IN
     \E o \in docSet(users, uidOf[p], profileOf(d)) :
       /\ log' = [log EXCEPT ![p] =
                    Append(@, Write("users", "set", uidOf[p], o.err))]
       /\ users' = o.users
       /\ IF o.err = OK
            THEN /\ Reply(p, Succeeded(uidOf[p]))
                 /\ past' = past
            ELSE /\ Reply(p, Thrown(req[p], o.err, TRUE))
                 /\ past' = [past EXCEPT !.orphaned = @ \cup {d.email}]
  /\ UNCHANGED <<auth, nextUid, served, req, uidOf, seen, deleted>>

\* updateUser, first write: doc(uid).update (lines 82-84, 167, 261-263).
UpdateProfile(p) ==
  /\ pc[p] = "first" /\ req[p].op = "update"
  /\ LET d == req[p].data IN
     \E o \in docUpdate(users, d.uid, d.name, d.role, d.title,
                        communitiesOrEmpty(d)) :
       /\ log' = [log EXCEPT ![p] =
                    Append(@, Write("users", "update", d.uid, o.err))]
       /\ users' = o.users
       /\ IF o.err = OK
            THEN /\ pc' = [pc EXCEPT ![p] = "second"]
                 /\ resp' = resp
                 /\ past' = IF /\ users[d.uid].exists
                                /\ users[d.uid].role = Admin
                                /\ d.role # Admin
                              THEN [past EXCEPT !.revoked = @ \cup {d.uid}]
                              ELSE past
            ELSE /\ Reply(p, Thrown(req[p], o.err, TRUE))
                 /\ past' = past
  /\ UNCHANGED <<auth, nextUid, served, req, uidOf, seen, deleted>>

\* updateUser, second write: admin.auth().updateUser (lines 86-92, 168-171,
\* 265-271).
UpdateIdentity(p) ==
  /\ pc[p] = "second" /\ req[p].op = "update"
  /\ LET d == req[p].data IN
     \E o \in authUpdateUser(auth, d.uid, d.name, d.password) :
       /\ log' = [log EXCEPT ![p] =
                    Append(@, Write("auth", "updateUser", d.uid, o.err))]
       /\ auth' = o.auth
       /\ IF o.err = OK
            THEN Reply(p, Succeeded(NoUid))
            ELSE Reply(p, Thrown(req[p], o.err, TRUE))
  /\ UNCHANGED <<users, nextUid, served, req, uidOf, seen, deleted, past>>

DeleteIdentityUnchecked(p) ==
  /\ pc[p] = "first" /\ req[p].op = "delete"
  /\ LET d == req[p].data IN
     \E o \in authDeleteUser(auth, d.uid) :
       /\ log' = [log EXCEPT ![p] =
                    Append(@, Write("auth", "deleteUser", d.uid, o.err))]
       /\ auth' = o.auth
       /\ pc' = [pc EXCEPT ![p] = "second"]
       /\ resp' = resp
  /\ UNCHANGED <<users, nextUid, served, req, uidOf, seen, deleted, past>>

\* deleteUser, first write: admin.auth().deleteUser (lines 115, 188, 292).
DeleteIdentity(p) ==
  /\ pc[p] = "first" /\ req[p].op = "delete"
  /\ LET d == req[p].data IN
     \E o \in authDeleteUser(auth, d.uid) :
       /\ log' = [log EXCEPT ![p] =
                    Append(@, Write("auth", "deleteUser", d.uid, o.err))]
       /\ auth' = o.auth
       /\ IF o.err = OK
            THEN /\ pc' = [pc EXCEPT ![p] = "second"]
                 /\ resp' = resp
            ELSE Reply(p, Thrown(req[p], o.err, TRUE))
  /\ UNCHANGED <<users, nextUid, served, req, uidOf, seen, deleted, past>>

\* deleteUser, second write: doc(uid).delete (lines 116-117, 189-190,
\* 293-295).
DeleteProfile(p) ==
  /\ pc[p] = "second" /\ req[p].op = "delete"
  /\ LET d == req[p].data IN
     \E o \in docDelete(users, d.uid) :
       /\ log' = [log EXCEPT ![p] =
                    Append(@, Write("users", "delete", d.uid, o.err))]
       /\ users' = o.users
       /\ IF o.err = OK
            THEN /\ Reply(p, Succeeded(NoUid))
                 /\ deleted' = IF seen[p].users[d.uid].exists
                                THEN deleted \cup {d.uid} ELSE deleted
                 /\ past' = IF users[d.uid].exists
                                /\ users[d.uid].role = Admin
                              THEN [past EXCEPT !.revoked = @ \cup {d.uid}]
                              ELSE past
            ELSE /\ Reply(p, Thrown(req[p], o.err, TRUE))
                 /\ UNCHANGED <<deleted, past>>
  /\ UNCHANGED <<auth, nextUid, served, req, uidOf, seen>>

\* The slot is free for the next request; nothing of the request is kept.
Finish(p) ==
  /\ pc[p] = "done"
  /\ pc' = [pc EXCEPT ![p] = "idle"]
  /\ req' = [req EXCEPT ![p] = NoRequest]
  /\ uidOf' = [uidOf EXCEPT ![p] = NoUid]
  /\ resp' = [resp EXCEPT ![p] = NoResponse]
  /\ log' = [log EXCEPT ![p] = << >>]
  /\ seen' = [seen EXCEPT ![p] = NotSeen]
  /\ UNCHANGED <<auth, users, nextUid, served, deleted, past>>

Next ==
  \E p \in Procs :
    \/ Begin(p)
    \/ OtherMethod(p)
    \/ CreateIdentity(p)
    \/ SetProfile(p)
    \/ UpdateProfile(p)
    \/ UpdateIdentity(p)
    \/ DeleteIdentity(p)
    \/ DeleteProfile(p)
    \/ Finish(p)

Spec == Init /\ [][Next]_vars

\* Concurrent requests.  Each handler is an async function: every await of
\* a store call is a point where another request's handler may run, so the
\* guard's read and the two writes of one request interleave with those of
\* the others.  The requests are complete ones of the first administrator,
\* sent to the callable functions: the three families issue the same store
\* calls in the same order and differ in how they answer.
ConcurrentData(o) ==
  CASE o = "create" ->
         {Data(NoUid, "c@x", "goodpw", "n2", "member", "t2", FALSE,
               Undefined)}
    [] o = "update" ->
         {Data(u, "", "", "n3", "member", "t3", FALSE, Undefined) :
            u \in Uids}
    [] OTHER ->
         {Data(u, "", "", "", "", "", FALSE, Undefined) : u \in Uids}

StartConcurrent(p) ==
  /\ pc[p] = "idle"
  /\ \A q \in Procs : q < p => pc[q] # "idle"
  /\ served < MaxRequests
  /\ \E o \in Ops :
     \E d \in ConcurrentData(o) : Receive(p, "call", o, Cred("valid", 1), d)

NextConcurrent ==
  \E p \in Procs :
    \/ StartConcurrent(p)
    \/ CreateIdentity(p)
    \/ SetProfile(p)
    \/ UpdateProfile(p)
    \/ UpdateIdentity(p)
    \/ DeleteIdentity(p)
    \/ DeleteProfile(p)

SpecConcurrent == Init /\ [][NextConcurrent]_vars

TypeOK ==
  /\ nextUid \in 1..(MaxUid + 1)
  /\ served \in 0..MaxRequests
  /\ \A p \in Procs : pc[p] \in {"idle", "first", "second", "done"}
  /\ \A u \in Uids : auth[u].exists \in BOOLEAN /\ users[u].exists \in BOOLEAN

\* ------------------------------------------------------------ claims
Done(p) == pc[p] = "done" /\ req[p].method = "POST"

\* The request passed the guard as an administrator and carried every
\* required field, so it went on to its first store write.
Admitted(p) ==
  /\ Done(p)
  /\ req[p].cred.kind = "valid"
  /\ seen[p].got.err = OK
  /\ seen[p].got.doc.exists
  /\ seen[p].got.doc.role = Admin
  /\ ~missingFields(req[p].op, req[p].data)

\* No store call of the request failed for a reason of the store's own.
NoFault(p) ==
  /\ seen[p].got.err = OK
  /\ \A i \in 1..Len(log[p]) : log[p][i].err \notin AuthFaults \cup StoreFaults

SecondWriteFailed(p) ==
  /\ Len(log[p]) = 2
  /\ log[p][1].err = OK
  /\ log[p][2].err # OK

StoresUntouched(p) ==
  /\ auth = seen[p].auth
  /\ users = seen[p].users

\* C1: when a create's profile write fails after its identity write
\* succeeded, the request ends with the new id in the identity provider,
\* no profile under that id, no identity delete issued, and the error code
\* internal.
C1_CreateSecondWriteFails ==
  \A p \in Procs :
    (Done(p) /\ req[p].op = "create" /\ SecondWriteFailed(p)) =>
      /\ auth[uidOf[p]].exists
      /\ ~users[uidOf[p]].exists
      /\ \A i \in 1..Len(log[p]) : log[p][i].call # "deleteUser"
      /\ resp[p].code = "internal"

\* C2: when a delete's profile delete fails after its identity delete
\* succeeded, the request ends with the profile still stored, no identity
\* under that id, and the error code internal.
C2_DeleteSecondWriteFails ==
  \A p \in Procs :
    (Done(p) /\ req[p].op = "delete" /\ SecondWriteFailed(p)
       /\ seen[p].users[req[p].data.uid].exists) =>
      /\ users[req[p].data.uid].exists
      /\ ~auth[req[p].data.uid].exists
      /\ resp[p].code = "internal"

\* C3: a request of any operation whose credential is missing or fails
\* verification ends with the error code unauthenticated and has written
\* neither store.
C3_Unauthenticated ==
  \A p \in Procs :
    (Done(p) /\ req[p].cred.kind # "valid") =>
      /\ resp[p].code = "unauthenticated"
      /\ log[p] = << >>
      /\ StoresUntouched(p)

\* C4: a request of any operation whose verified caller has no profile, or
\* a profile whose role is not the administrator sentinel, ends with the
\* error code permission-denied and has written neither store.
C4_PermissionDenied ==
  \A p \in Procs :
    (Done(p) /\ req[p].cred.kind = "valid" /\ seen[p].got.err = OK
       /\ (~seen[p].got.doc.exists \/ seen[p].got.doc.role # Admin)) =>
      /\ resp[p].code = "permission-denied"
      /\ log[p] = << >>
      /\ StoresUntouched(p)

\* C5: an update by an administrator on an id that is in neither store
\* ends with the error code not-found and has written neither store.
C5_UpdateMissingIsNotFound ==
  \A p \in Procs :
    (Admitted(p) /\ req[p].op = "update" /\ NoFault(p)
       /\ ~seen[p].auth[req[p].data.uid].exists
       /\ ~seen[p].users[req[p].data.uid].exists) =>
      /\ resp[p].code = "not-found"
      /\ StoresUntouched(p)

\* C6: once a delete on an id held by both stores has succeeded, the id is
\* in neither store, and every later update or delete of that id by an
\* administrator ends with the error code not-found.
C6_AfterDeleteNotFound ==
  /\ \A u \in deleted : ~auth[u].exists /\ ~users[u].exists
  /\ \A p \in Procs :
       (Admitted(p) /\ req[p].op \in {"update", "delete"} /\ NoFault(p)
          /\ req[p].data.uid \in seen[p].deleted) =>
         resp[p].code = "not-found"

\* C7: a create by an administrator with every required field, an email
\* no identity record holds and a password the provider accepts, whose
\* store calls both succeed, returns success with a new id; exactly one
\* identity record and one profile record were added, both under that id;
\* the profile holds the submitted email, name, role and title, and the
\* submitted communities, or none when communities was omitted.
C7_CreateAddsPair ==
  \A p \in Procs :
    (Admitted(p) /\ req[p].op = "create" /\ NoFault(p)
       /\ ~EmailTaken(seen[p].auth, req[p].data.email)
       /\ req[p].data.password \notin WeakPasswords) =>
      LET d == req[p].data
          u == resp[p].uid
      IN  /\ resp[p].success
          /\ u \in Uids
          /\ ~seen[p].auth[u].exists /\ ~seen[p].users[u].exists
          /\ auth[u].exists /\ auth[u].email = d.email
          /\ users[u] = Doc(d.email, d.name, d.role, d.title,
                            IF d.hasCommunities THEN d.communities
                                                ELSE << >>)
          /\ \A v \in Uids \ {u} :
               auth[v] = seen[p].auth[v] /\ users[v] = seen[p].users[v]

C7_Witness ==
  \E p \in Procs :
    /\ Admitted(p) /\ req[p].op = "create" /\ resp[p].success
    /\ ~req[p].data.hasCommunities
    /\ users[resp[p].uid].exists
    /\ users[resp[p].uid].communities = << >>
    /\ users[resp[p].uid].role = req[p].data.role

\* C8: a create by an administrator with an email an identity record
\* already holds ends with the error code already-exists, has issued no
\* profile-store write and leaves both stores as they were.
C8_CreateDuplicateEmail ==
  \A p \in Procs :
    (Admitted(p) /\ req[p].op = "create" /\ NoFault(p)
       /\ EmailTaken(seen[p].auth, req[p].data.email)
       /\ req[p].data.password \notin WeakPasswords) =>
      /\ resp[p].code = "already-exists"
      /\ \A i \in 1..Len(log[p]) : log[p][i].store # "users"
      /\ StoresUntouched(p)

\* C9: after a successful update whose request omitted communities, the
\* stored profile's communities are empty, whatever they were before.
C9_UpdateOmittedCommunities ==
  \A p \in Procs :
    (Done(p) /\ req[p].op = "update" /\ resp[p].success
       /\ ~req[p].data.hasCommunities) =>
      /\ users[req[p].data.uid].exists
      /\ users[req[p].data.uid].communities = << >>

C9_Witness ==
  \E p \in Procs :
    /\ Done(p) /\ req[p].op = "update" /\ resp[p].success
    /\ ~req[p].data.hasCommunities
    /\ seen[p].users[req[p].data.uid].communities = <<"c1">>
    /\ users[req[p].data.uid].communities = << >>

\* C10: every error response of httpCreateUser, httpUpdateUser and
\* httpDeleteUser carries one of the six taxonomy codes.
C10_HttpErrorCodeInTaxonomy ==
  \A p \in Procs :
    (Done(p) /\ req[p].variant = "http" /\ ~resp[p].success) =>
      resp[p].code \in TaxonomyCodes

\* C11: sendError answers an error whose code is unauthenticated with
\* status 401, permission-denied with 403, invalid-argument with 400,
\* already-exists with 409, not-found with 404 and internal with 500; an
\* error that has no code, or any other code, is answered with status 500.
C11_SendErrorStatus ==
  \A p \in Procs :
    (Done(p) /\ req[p].variant = "http" /\ ~resp[p].success) =>
      /\ resp[p].status =
           (IF resp[p].code = "unauthenticated" THEN 401
            ELSE IF resp[p].code = "permission-denied" THEN 403
            ELSE IF resp[p].code = "invalid-argument" THEN 400
            ELSE IF resp[p].code = "already-exists" THEN 409
            ELSE IF resp[p].code = "not-found" THEN 404
            ELSE 500)
      /\ (Len(log[p]) > 0 /\ log[p][Len(log[p])].err = Absent) =>
           resp[p].status = 500
      /\ (seen[p].got.err = Absent) => resp[p].status = 500

\* An http create answered already-exists with status 409.
C11_Witness ==
  \E p \in Procs :
    /\ Done(p) /\ req[p].variant = "http" /\ req[p].op = "create"
    /\ resp[p].code = "already-exists"
    /\ resp[p].status = 409

\* C12: when the identity provider refuses a create because of the shape of
\* the password (too weak), and not because the email is taken, the request
\* fails with invalid-argument, not internal, and no profile is written.
C12_CreateRejectedPassword ==
  \A p \in Procs :
    (/\ Admitted(p) /\ req[p].op = "create"
     /\ Len(log[p]) = 1
     /\ log[p][1].err = "auth/invalid-password") =>
      /\ ~resp[p].success
      /\ resp[p].code = "invalid-argument"
      /\ users = seen[p].users

\* C13: the two writes of a request are issued one after the other: the
\* first goes to the identity provider for a create and a delete and to the
\* profile store for an update, the second goes to the other store and is
\* issued only after the first returned successfully, and a request issues
\* at most one write to each store.
C13_SequentialWrites ==
  \A p \in Procs :
    LET l == log[p]
        first == IF req[p].op = "update" THEN "users" ELSE "auth"
        second == IF req[p].op = "update" THEN "auth" ELSE "users"
    IN  /\ Len(l) <= 2
        /\ pc[p] = "first" => Len(l) = 0
        /\ pc[p] = "second" => Len(l) = 1
        /\ Len(l) >= 1 => l[1].store = first
        /\ Len(l) = 2 => l[1].err = OK /\ l[2].store = second

\* A delete ended after its identity delete failed, with no profile delete.
C13_Witness ==
  \E p \in Procs :
    /\ Done(p) /\ req[p].op = "delete"
    /\ Len(log[p]) = 1
    /\ log[p][1].call = "deleteUser"
    /\ log[p][1].err # OK

\* C14: in every interleaving of concurrent requests of administrators,
\* whenever no create or delete is between its two writes and no store call
\* has failed, the identity provider and the profile store hold the same
\* set of ids.
C14_StoresInSync ==
  (/\ \A p \in Procs :
        ~(pc[p] = "second" /\ req[p].op \in {"create", "delete"})
   /\ \A p \in Procs :
        /\ seen[p].got.err = OK
        /\ \A i \in 1..Len(log[p]) : log[p][i].err = OK) =>
    {u \in Uids : auth[u].exists} = {u \in Uids : users[u].exists}

\* C15: when an update's identity write fails after its profile write
\* succeeded, the profile keeps the new name, role, title and communities,
\* the identity record is unchanged, and the request fails with not-found
\* when the provider has no such id, with invalid-argument when it rejected
\* the password, and with internal otherwise.
C15_UpdateSecondWriteFails ==
  \A p \in Procs :
    (Done(p) /\ req[p].op = "update" /\ SecondWriteFailed(p)) =>
      LET d == req[p].data
          e == log[p][2].err
      IN  /\ users[d.uid].exists
          /\ users[d.uid].name = d.name
          /\ users[d.uid].role = d.role
          /\ users[d.uid].title = d.title
          /\ users[d.uid].communities = communitiesOrEmpty(d)
          /\ auth = seen[p].auth
          /\ ~resp[p].success
          /\ resp[p].code =
               (IF e = "auth/user-not-found" THEN "not-found"
                ELSE IF e = "auth/invalid-password" THEN "invalid-argument"
                ELSE "internal")

\* C16: after a create whose profile write failed once its identity was
\* made, every later create with the same email (and a password the provider
\* accepts, no store failing on its own) fails with already-exists and
\* writes no profile, so the email stays without a profile.
C16_OrphanBlocksCreate ==
  \A p \in Procs :
    (/\ Admitted(p) /\ req[p].op = "create"
     /\ req[p].data.email \in seen[p].past.orphaned
     /\ req[p].data.password \notin WeakPasswords
     /\ NoFault(p)) =>
      /\ ~resp[p].success
      /\ resp[p].code = "already-exists"
      /\ users = seen[p].users
      /\ \A u \in Uids :
           users[u].exists => users[u].email # req[p].data.email

\* C17: the administrator check is made afresh on every request: a caller
\* whose administrator profile a completed update gave another role, or a
\* completed delete removed, is answered permission-denied on every request
\* started afterwards, and a caller is let through to the store writes
\* exactly when a profile exists at the caller's id with the administrator
\* role.
C17_AdminCheckedAfresh ==
  \A p \in Procs :
    (Done(p) /\ req[p].cred.kind = "valid" /\ seen[p].got.err = OK) =>
      LET isAdmin == /\ seen[p].users[req[p].cred.uid].exists
                     /\ seen[p].users[req[p].cred.uid].role = Admin
      IN  /\ req[p].cred.uid \in seen[p].past.revoked =>
               /\ ~resp[p].success
               /\ resp[p].code = "permission-denied"
          /\ ~isAdmin => Len(log[p]) = 0
          /\ (isAdmin /\ ~missingFields(req[p].op, req[p].data)) =>
               Len(log[p]) >= 1

\* C18: authorization is decided before validation: in each of the three
\* operations a request that lacks administrator authorization and also
\* lacks a required field is answered unauthenticated or permission-denied,
\* never invalid-argument.
C18_GuardBeforeValidation ==
  \A p \in Procs :
    (/\ Done(p) /\ seen[p].got.err = OK
     /\ ~(/\ req[p].cred.kind = "valid"
          /\ seen[p].got.doc.exists
          /\ seen[p].got.doc.role = Admin)
     /\ missingFields(req[p].op, req[p].data)) =>
      /\ ~resp[p].success
      /\ resp[p].code \in {"unauthenticated", "permission-denied"}

\* C19: a request of an administrator that lacks a required field (create:
\* email, password, name, role, title; update: id, name, role, title;
\* delete: id) is answered invalid-argument and writes to neither store.
C19_MissingFieldRejected ==
  \A p \in Procs :
    (/\ Done(p) /\ req[p].cred.kind = "valid" /\ seen[p].got.err = OK
     /\ seen[p].got.doc.exists /\ seen[p].got.doc.role = Admin
     /\ missingFields(req[p].op, req[p].data)) =>
      /\ ~resp[p].success
      /\ resp[p].code = "invalid-argument"
      /\ Len(log[p]) = 0
      /\ StoresUntouched(p)

\* C20: an update never creates a record in either store; and for an id
\* present in both stores, once a delete and an update on that id have both
\* run to completion, in any interleaving of their store calls and with no
\* store failure other than those of calls on an absent id, the id is absent
\* from both stores.
C20_UpdateNeverCreates ==
  /\ [][\A p \in Procs :
         (req[p].op = "update" /\ log'[p] # log[p]) =>
           /\ {u \in Uids : auth'[u].exists} = {u \in Uids : auth[u].exists}
           /\ {u \in Uids : users'[u].exists}
                = {u \in Uids : users[u].exists}]_vars
  /\ [](\A p, q \in Procs :
         (/\ Done(p) /\ req[p].op = "delete" /\ Len(log[p]) >= 1
          /\ Done(q) /\ req[q].op = "update" /\ Len(log[q]) >= 1
          /\ req[p].data.uid = req[q].data.uid
          /\ seen[p].auth[req[p].data.uid].exists
          /\ seen[p].users[req[p].data.uid].exists
          /\ seen[q].auth[req[q].data.uid].exists
          /\ seen[q].users[req[q].data.uid].exists
          /\ \A r \in Procs : NoFault(r)
          /\ \A r \in Procs :
               ~(pc[r] \in {"first", "second"}
                 /\ req[r].data.uid = req[p].data.uid)) =>
           /\ ~auth[req[p].data.uid].exists
           /\ ~users[req[p].data.uid].exists)

\* A delete ran between the two writes of an update on the same id: the
\* update's profile write succeeded and its identity write found no user.
C20_Witness ==
  \E p, q \in Procs :
    /\ Done(p) /\ req[p].op = "delete" /\ resp[p].success
    /\ Done(q) /\ req[q].op = "update"
    /\ req[p].data.uid = req[q].data.uid
    /\ seen[p].users[req[p].data.uid].exists
    /\ Len(log[q]) = 2
    /\ log[q][1].err = OK
    /\ log[q][2].err = "auth/user-not-found"
    /\ ~auth[req[p].data.uid].exists
    /\ ~users[req[p].data.uid].exists

====
